---- MODULE Spec2Model ----
(***************************************************************************)
(* The chessboard micro-frontend: the postMessage dispatcher of            *)
(* src/src/mfe.ts and the BoardController of src/src/board.ts, which       *)
(* reconciles host commands with the callbacks of the rendering surface.   *)
(* One step of the model is one event handler run to completion (the page  *)
(* is single threaded): the load listener, the fallback timer, the message *)
(* listener, or one callback / DOM listener of the board.                  *)
(***************************************************************************)
EXTENDS Integers, Sequences, FiniteSets, TLC

\* ------------------------------------------------------------------ bounds
\* The clock advances in ticks of TickMs; MaxTicks ticks are explored.
MaxTicks == 1
MaxClockTicks == 5
MaxTos == 2

\* ------------------------------------------------------- program constants
VERSION == 1
DESELECT_MS == 200
RESELECT_MS == 800

\* ------------------------------------------------------------ input domains
TickMs == DESELECT_MS
\* Date.now() at page load: any value beyond both windows, so that the initial
\* lastSelectTs = 0 is "long ago", as it is with an epoch clock.
StartMs == RESELECT_MS + DESELECT_MS
MaxNow == StartMs + MaxTicks * TickMs
MaxClockNow == StartMs + MaxClockTicks * TickMs

\* Window handles: "w1" and "w2" are the evt.source of inbound messages,
\* ParentWin is window.parent.
ParentWin == "window.parent"
NoWindow == "null"
WILDCARD == "*"

\* Envelope ids: "a", "b" and "" (an id that is present but falsy in
\* JavaScript); NoId is an envelope without an id field.
NoId == "undefined"

Colors == {"white", "black"}
Squares == {"e2", "e4", "d2", "e7"}

KnownTypes ==
  {"init", "setTheme", "setPosition", "setLegalDests", "setPremoveDests",
   "setTurn", "setDraggable", "setFreeMode", "clearPremoves", "playPremove",
   "flip", "setSize", "reset"}
UnknownTypes == {"bogus"}

\* ------------------------------------------------------------------- state
VARIABLES
  allowedOrigin,        \* mfe.ts: trusted origin, "*" until the first init
  parentWindow,         \* mfe.ts: counterpart handle, NoWindow until set
  controller,           \* mfe.ts: the BoardController, or NoController
  initializedByParent,  \* mfe.ts: a host init has been processed
  loaded,               \* the load listener has run
  timer,                \* the fallback timer: "unarmed", "armed", "fired"
  now,                  \* Date.now()
  evt,                  \* the event the last handler processed
  sent,                 \* the messages the last handler posted, in order
  outcome               \* how the last handler ended

vars ==
  <<allowedOrigin, parentWindow, controller, initializedByParent, loaded,
    timer, now, evt, sent, outcome>>

\* ------------------------------------------------- the rendering surface
\* A destination mapping: set = FALSE is null / undefined, otherwise m is the
\* Map's entries <<origin, destinations>> in insertion order.
NoMap == [set |-> FALSE, m |-> <<>>]
EmptyMap == [set |-> TRUE, m |-> <<>>]
MapOf(entries) == [set |-> TRUE, m |-> entries]

\* The piece map of the surface: the colour of the piece on a square, "" if
\* the square is empty. Two positions exist: before and after e2-e4.
FenStart == "start"
FenAfter == "after"
Fens == {FenStart, FenAfter}
PiecesOf(fen) ==
  IF fen = FenStart
  THEN [sq \in Squares |->
          CASE sq = "e2" -> "white" [] sq = "d2" -> "white"
            [] sq = "e7" -> "black" [] OTHER -> ""]
  ELSE [sq \in Squares |->
          CASE sq = "e4" -> "white" [] sq = "d2" -> "white"
            [] sq = "e7" -> "black" [] OTHER -> ""]

\* The state of a surface; alive = FALSE stands for this.cg = null.
NoCg ==
  [alive |-> FALSE, orientation |-> "white", turnColor |-> "white",
   movableColor |-> "both", free |-> FALSE, movableDests |-> NoMap,
   customDests |-> NoMap, current |-> <<>>, selected |-> "",
   pieces |-> PiecesOf(FenStart)]

\* Chessground(el, config): the surface as BoardController.init configures it.
Chessground(opts) ==
  [NoCg EXCEPT !.alive = TRUE,
               !.orientation = IF opts.orientation = "" THEN "white" ELSE opts.orientation,
               !.movableColor = IF opts.playerColor = "" THEN "both" ELSE opts.playerColor]

\* ------------------------------------------------------- BoardController
NewController ==
  [exists |-> TRUE, cg |-> NoCg, lastLegalMap |-> NoMap,
   lastPremoveMap |-> NoMap, lastSelectTs |-> 0, lastSelectedKey |-> "",
   suppressNextSelectEvent |-> FALSE, savedPremCurrent |-> <<>>,
   allowPremoveClear |-> FALSE]
NoController == [NewController EXCEPT !.exists = FALSE]

\* What a method hands back: the controller afterwards, the callbacks it made
\* (as <<type, fields>> notes for post) and whether it raised an exception.
Done(c, cbs) == [c |-> c, cbs |-> cbs, threw |-> FALSE]
Threw(c, cbs) == [c |-> c, cbs |-> cbs, threw |-> TRUE]

CbReady == [type |-> "ready", from |-> "", to |-> "", square |-> "", message |-> ""]
CbMove(orig, dest) == [CbReady EXCEPT !.type = "move", !.from = orig, !.to = dest]
CbSelect(sq) == [CbReady EXCEPT !.type = "select", !.square = sq]
CbError(msg) == [CbReady EXCEPT !.type = "error", !.message = msg]

isPlayersTurn(cg) ==
  /\ cg.movableColor # "both"
  /\ cg.turnColor = cg.movableColor

init(c, opts, constructed) ==
  IF c.cg.alive THEN Done(c, <<>>)
  ELSE IF constructed
       THEN Done([c EXCEPT !.cg = Chessground(opts)], <<CbReady>>)
       ELSE Done(c, <<CbError("init failed")>>)

\* Mutant of the turn-authority block: off turn the legal destinations stay.
reapplyDestsKeepsLegal(c) ==
  IF isPlayersTurn(c.cg)
  THEN [c EXCEPT !.cg.movableDests = IF c.lastLegalMap.set THEN c.lastLegalMap ELSE @,
                 !.cg.customDests = EmptyMap,
                 !.lastPremoveMap = NoMap]
  ELSE [c EXCEPT !.cg.customDests = IF c.lastPremoveMap.set THEN c.lastPremoveMap ELSE @]

\* Mutant of the turn-authority block: on turn the premove side is kept.
reapplyDestsKeepsPremove(c) ==
  IF isPlayersTurn(c.cg)
  THEN [c EXCEPT !.cg.movableDests = IF c.lastLegalMap.set THEN c.lastLegalMap ELSE @]
  ELSE [c EXCEPT !.cg.movableDests = NoMap,
                 !.cg.customDests = IF c.lastPremoveMap.set THEN c.lastPremoveMap ELSE @]

\* The turn-authority block shared by setPosition, setTurn and setDraggable.
reapplyDests(c) ==
  IF isPlayersTurn(c.cg)
  THEN [c EXCEPT !.cg.movableDests = IF c.lastLegalMap.set THEN c.lastLegalMap ELSE @,
                 !.cg.customDests = EmptyMap,
                 !.lastPremoveMap = NoMap]
  ELSE [c EXCEPT !.cg.movableDests = NoMap,
                 !.cg.customDests = IF c.lastPremoveMap.set THEN c.lastPremoveMap ELSE @]

reapplyPremoveCurrent(c) ==
  IF c.savedPremCurrent # <<>>
  THEN [c EXCEPT !.cg.current = c.savedPremCurrent]
  ELSE c

\* Mutant of the selection reassert: the age of the selection is not looked at.
reassertSelectionAnyAge(c, t) ==
  IF c.lastSelectedKey # "" /\ isPlayersTurn(c.cg)
  THEN [c EXCEPT !.cg.selected = c.lastSelectedKey]
  ELSE [c EXCEPT !.cg.selected = ""]

reassertSelection(c, t) ==
  IF c.lastSelectedKey # "" /\ isPlayersTurn(c.cg) /\ t - c.lastSelectTs <= RESELECT_MS
  THEN [c EXCEPT !.cg.selected = c.lastSelectedKey]
  ELSE [c EXCEPT !.cg.selected = ""]

\* Mutant of setPosition: the position push drops the committed premove.
setPositionDropsPremove(c, payload, t) ==
  IF ~c.cg.alive THEN Done(c, <<>>)
  ELSE IF ~payload.present THEN Threw(c, <<>>)
  ELSE LET c1 == [c EXCEPT !.cg.pieces = PiecesOf(payload.fen),
                           !.cg.turnColor = IF payload.turnColor = "" THEN @ ELSE payload.turnColor,
                           !.cg.orientation = IF payload.orientation = "" THEN @ ELSE payload.orientation,
                           !.cg.current = <<>>,
                           !.savedPremCurrent = <<>>]
       IN Done(reassertSelection(reapplyDests(c1), t), <<>>)

\* payload.present = FALSE is a command without payload: payload.fen raises.
setPosition(c, payload, t) ==
  IF ~c.cg.alive THEN Done(c, <<>>)
  ELSE IF ~payload.present THEN Threw(c, <<>>)
  ELSE LET c1 == [c EXCEPT !.cg.pieces = PiecesOf(payload.fen),
                           !.cg.turnColor = IF payload.turnColor = "" THEN @ ELSE payload.turnColor,
                           !.cg.orientation = IF payload.orientation = "" THEN @ ELSE payload.orientation]
       IN Done(reapplyPremoveCurrent(reassertSelection(reapplyDests(c1), t)), <<>>)

\* Mutant of the same-colour filter: the mapping is applied as supplied.
filterDestsNothing(dests, pieces) == dests

RECURSIVE filterDests(_, _)
filterDests(dests, pieces) ==
  IF dests = <<>> THEN <<>>
  ELSE LET orig == Head(dests)[1]
           tos == Head(dests)[2]
           Keep(to) == ~(pieces[to] # "" /\ pieces[orig] # "" /\ pieces[to] = pieces[orig])
           clean == SelectSeq(tos, Keep)
           rest == filterDests(Tail(dests), pieces)
       IN IF Len(clean) > 0 THEN <<<<orig, clean>>>> \o rest ELSE rest

\* Mutant of setLegalDests: the premove destinations are left on the surface.
setLegalDestsKeepsPremove(c, dests) ==
  IF ~c.cg.alive THEN Done(c, <<>>)
  ELSE IF dests.ok /\ dests.list = <<>> THEN Done(c, <<>>)
  ELSE IF ~dests.ok THEN Threw(c, <<>>)
  ELSE LET filtered == MapOf(filterDests(dests.list, c.cg.pieces))
       IN Done([c EXCEPT !.cg.movableDests = filtered,
                         !.lastLegalMap = filtered], <<>>)

\* dests.ok = FALSE is a dests array whose entries are not [origin, list] pairs.
setLegalDests(c, dests) ==
  IF ~c.cg.alive THEN Done(c, <<>>)
  ELSE IF dests.ok /\ dests.list = <<>> THEN Done(c, <<>>)
  ELSE IF ~dests.ok THEN Threw(c, <<>>)
  ELSE LET filtered == MapOf(filterDests(dests.list, c.cg.pieces))
       IN Done([c EXCEPT !.cg.movableDests = filtered,
                         !.cg.customDests = EmptyMap,
                         !.lastLegalMap = filtered,
                         !.lastPremoveMap = NoMap], <<>>)

\* Mutant of setPremoveDests: the turn is not looked at.
setPremoveDestsAnyTurn(c, dests) ==
  IF ~c.cg.alive THEN Done(c, <<>>)
  ELSE IF dests.ok /\ dests.list = <<>>
  THEN Done([c EXCEPT !.cg.customDests = EmptyMap, !.lastPremoveMap = NoMap], <<>>)
  ELSE IF ~dests.ok THEN Threw(c, <<>>)
  ELSE Done([c EXCEPT !.cg.movableDests = NoMap,
                      !.lastLegalMap = NoMap,
                      !.cg.customDests = MapOf(dests.list),
                      !.lastPremoveMap = MapOf(dests.list)], <<>>)

\* Mutant of setPremoveDests: the legal destinations are left on the surface.
setPremoveDestsKeepsLegal(c, dests) ==
  IF ~c.cg.alive THEN Done(c, <<>>)
  ELSE IF isPlayersTurn(c.cg) \/ (dests.ok /\ dests.list = <<>>)
  THEN Done([c EXCEPT !.cg.customDests = EmptyMap, !.lastPremoveMap = NoMap], <<>>)
  ELSE IF ~dests.ok THEN Threw(c, <<>>)
  ELSE Done([c EXCEPT !.cg.customDests = MapOf(dests.list),
                      !.lastPremoveMap = MapOf(dests.list)], <<>>)

setPremoveDests(c, dests) ==
  IF ~c.cg.alive THEN Done(c, <<>>)
  ELSE IF isPlayersTurn(c.cg) \/ (dests.ok /\ dests.list = <<>>)
  THEN Done([c EXCEPT !.cg.customDests = EmptyMap, !.lastPremoveMap = NoMap], <<>>)
  ELSE IF ~dests.ok THEN Threw(c, <<>>)
  ELSE Done([c EXCEPT !.cg.movableDests = NoMap,
                      !.lastLegalMap = NoMap,
                      !.cg.customDests = MapOf(dests.list),
                      !.lastPremoveMap = MapOf(dests.list)], <<>>)

setTurn(c, color) ==
  IF ~c.cg.alive THEN Done(c, <<>>)
  ELSE Done(reapplyPremoveCurrent(reapplyDests([c EXCEPT !.cg.turnColor = color])), <<>>)

\* Mutant of setDraggable: the colour is set and the destinations are left.
setDraggableLeavesDests(c, enabled, playerColor) ==
  IF ~c.cg.alive THEN Done(c, <<>>)
  ELSE Done([c EXCEPT !.cg.movableColor = playerColor], <<>>)

setDraggable(c, enabled, playerColor) ==
  IF ~c.cg.alive THEN Done(c, <<>>)
  ELSE Done(reapplyDests([c EXCEPT !.cg.movableColor = playerColor]), <<>>)

setFreeMode(c, free) ==
  IF ~c.cg.alive THEN Done(c, <<>>)
  ELSE Done([c EXCEPT !.cg.free = free,
                      !.cg.movableDests = IF c.lastLegalMap.set THEN c.lastLegalMap ELSE @,
                      !.cg.customDests = IF c.lastPremoveMap.set THEN c.lastPremoveMap ELSE @], <<>>)

\* premovable.enabled is switched off and on again; the surface merges the
\* flag and nothing else, so its state is as before.
clearPremoves(c) == Done(c, <<>>)

flip(c) ==
  IF ~c.cg.alive THEN Done(c, <<>>)
  ELSE Done([c EXCEPT !.cg.orientation = IF @ = "white" THEN "black" ELSE "white"], <<>>)

\* Only the container's CSS size changes, which the model does not hold.
setSize(c) == Done(c, <<>>)

\* -------------------------------------- callbacks of the rendering surface
\* events.move
\* Mutant of events.move: the cached mappings are kept.
eventsMoveKeepsCaches(c, orig, dest) ==
  Done([c EXCEPT !.cg.movableDests = NoMap,
                 !.cg.customDests = NoMap,
                 !.cg.selected = "",
                 !.lastSelectedKey = ""], <<CbMove(orig, dest)>>)

eventsMove(c, orig, dest) ==
  Done([c EXCEPT !.cg.movableDests = NoMap,
                 !.cg.customDests = NoMap,
                 !.cg.selected = "",
                 !.lastSelectedKey = "",
                 !.lastLegalMap = NoMap,
                 !.lastPremoveMap = NoMap], <<CbMove(orig, dest)>>)

\* events.select; key = "" is the callback without a key (a deselect).
\* Mutant of events.select: a forwarded deselect leaves the caches alone.
eventsSelectKeepsCaches(c, key, t) ==
  IF key # ""
  THEN IF c.suppressNextSelectEvent
       THEN Done([c EXCEPT !.suppressNextSelectEvent = FALSE], <<>>)
       ELSE LET c1 == [c EXCEPT !.lastSelectTs = t, !.lastSelectedKey = key]
                c2 == IF c1.savedPremCurrent # <<>>
                      THEN [c1 EXCEPT !.cg.current = c1.savedPremCurrent]
                      ELSE IF c1.cg.current # <<>>
                           THEN [c1 EXCEPT !.savedPremCurrent = c1.cg.current]
                           ELSE c1
            IN Done(c2, <<CbSelect(key)>>)
  ELSE IF t - c.lastSelectTs < DESELECT_MS THEN Done(c, <<>>)
  ELSE LET c1 == [c EXCEPT !.cg.movableDests = NoMap,
                           !.cg.customDests = EmptyMap,
                           !.lastSelectedKey = ""]
       IN Done(reapplyPremoveCurrent(c1), <<CbSelect("")>>)

\* Mutant of events.select: a deselect is forwarded whenever it arrives.
eventsSelectNoWindow(c, key, t) ==
  IF key # ""
  THEN Done([c EXCEPT !.lastSelectTs = t, !.lastSelectedKey = key], <<CbSelect(key)>>)
  ELSE Done([c EXCEPT !.cg.movableDests = NoMap,
                      !.cg.customDests = EmptyMap,
                      !.lastLegalMap = NoMap,
                      !.lastPremoveMap = NoMap,
                      !.lastSelectedKey = ""], <<CbSelect("")>>)

eventsSelect(c, key, t) ==
  IF key # ""
  THEN IF c.suppressNextSelectEvent
       THEN Done([c EXCEPT !.suppressNextSelectEvent = FALSE], <<>>)
       ELSE LET c1 == [c EXCEPT !.lastSelectTs = t, !.lastSelectedKey = key]
                c2 == IF c1.savedPremCurrent # <<>>
                      THEN [c1 EXCEPT !.cg.current = c1.savedPremCurrent]
                      ELSE IF c1.cg.current # <<>>
                           THEN [c1 EXCEPT !.savedPremCurrent = c1.cg.current]
                           ELSE c1
            IN Done(c2, <<CbSelect(key)>>)
  ELSE IF t - c.lastSelectTs < DESELECT_MS THEN Done(c, <<>>)
  ELSE LET c1 == [c EXCEPT !.cg.movableDests = NoMap,
                           !.cg.customDests = EmptyMap,
                           !.lastLegalMap = NoMap,
                           !.lastPremoveMap = NoMap,
                           !.lastSelectedKey = ""]
       IN Done(reapplyPremoveCurrent(c1), <<CbSelect("")>>)

\* Mutant of premovable.events.set: a new premove replaces the locked one.
premovableSetReplaces(c, orig, dest) ==
  Done([c EXCEPT !.savedPremCurrent = <<orig, dest>>], <<>>)

\* premovable.events.set: the surface has made <<orig, dest>> its current
\* premove before it calls this. callbacks.onPremoveSelect is not among the
\* callbacks ensureBoard passes, so nothing is posted.
premovableSet(c, orig, dest) ==
  IF c.savedPremCurrent # <<>> /\ c.cg.current # c.savedPremCurrent
  THEN Done([c EXCEPT !.cg.current = c.savedPremCurrent, !.cg.selected = ""], <<>>)
  ELSE Done([c EXCEPT !.savedPremCurrent = <<orig, dest>>], <<>>)

\* Mutant of premovable.events.unset: the lock is given up on every unset.
premovableUnsetAlwaysClears(c) ==
  Done([c EXCEPT !.allowPremoveClear = FALSE,
                 !.savedPremCurrent = <<>>,
                 !.cg.customDests = EmptyMap], <<>>)

\* premovable.events.unset: the surface has dropped its current premove.
premovableUnset(c) ==
  IF c.allowPremoveClear
  THEN Done([c EXCEPT !.allowPremoveClear = FALSE,
                      !.savedPremCurrent = <<>>,
                      !.cg.customDests = EmptyMap], <<>>)
  ELSE Done(reapplyPremoveCurrent(c), <<>>)

\* The contextmenu listener of the board element.
contextmenu(c) ==
  LET c1 == [c EXCEPT !.allowPremoveClear = TRUE,
                      !.savedPremCurrent = <<>>,
                      !.lastPremoveMap = NoMap]
  IN IF c.cg.alive
     THEN Done([c1 EXCEPT !.cg.current = <<>>, !.cg.customDests = EmptyMap], <<>>)
     ELSE Done(c1, <<>>)

\* Mutant of the pointerdown listener: a press on any square releases.
pointerdownAnySquare(c, key) ==
  IF c.savedPremCurrent # <<>>
  THEN LET c1 == [c EXCEPT !.allowPremoveClear = TRUE,
                           !.savedPremCurrent = <<>>,
                           !.lastPremoveMap = NoMap]
       IN IF c.cg.alive
          THEN Done([c1 EXCEPT !.cg.current = <<>>, !.cg.customDests = EmptyMap], <<>>)
          ELSE Done(c1, <<>>)
  ELSE Done(c, <<>>)

\* The pointerdown listener of the board element, on the square key.
pointerdown(c, key) ==
  IF c.savedPremCurrent # <<>> /\ key = c.savedPremCurrent[1]
  THEN LET c1 == [c EXCEPT !.allowPremoveClear = TRUE,
                           !.savedPremCurrent = <<>>,
                           !.lastPremoveMap = NoMap]
       IN IF c.cg.alive
          THEN Done([c1 EXCEPT !.cg.current = <<>>, !.cg.customDests = EmptyMap], <<>>)
          ELSE Done(c1, <<>>)
  ELSE Done(c, <<>>)

\* ---------------------- what the surface itself does around its callbacks
MovePiece(pieces, orig, dest) ==
  [pieces EXCEPT ![dest] = pieces[orig], ![orig] = ""]

Opposite(color) == IF color = "white" THEN "black" ELSE "white"

DestsOf(map, orig) ==
  IF \E i \in 1..Len(map.m) : map.m[i][1] = orig
  THEN LET i == CHOOSE i \in 1..Len(map.m) : map.m[i][1] = orig
       IN {map.m[i][2][j] : j \in 1..Len(map.m[i][2])}
  ELSE {}

canMove(cg, orig, dest) ==
  /\ orig # dest
  /\ cg.pieces[orig] # ""
  /\ \/ cg.movableColor = "both"
     \/ cg.movableColor = cg.pieces[orig] /\ cg.turnColor = cg.pieces[orig]
  /\ cg.free \/ dest \in DestsOf(cg.movableDests, orig)

\* A move the user completes: the piece is moved, events.move runs, then the
\* surface drops its legal destinations and selection and passes the turn.
userMove(c, orig, dest) ==
  LET r == eventsMove([c EXCEPT !.cg.pieces = MovePiece(@, orig, dest)], orig, dest)
  IN Done([r.c EXCEPT !.cg.movableDests = NoMap,
                      !.cg.turnColor = Opposite(@),
                      !.cg.selected = ""], r.cbs)

\* The surface drops its current premove and reports it.
unsetPremove(c) ==
  IF c.cg.current # <<>>
  THEN premovableUnset([c EXCEPT !.cg.current = <<>>])
  ELSE Done(c, <<>>)

playPremove(c) ==
  IF ~c.cg.alive \/ c.cg.current = <<>> THEN Done(c, <<>>)
  ELSE LET orig == c.cg.current[1]
           dest == c.cg.current[2]
           r == IF canMove(c.cg, orig, dest) THEN userMove(c, orig, dest) ELSE Done(c, <<>>)
       IN Done(unsetPremove(r.c).c, r.cbs)

\* ----------------------------------------------------------- outbound side
\* An outbound message: the envelope type, the payload fields the type uses,
\* the window it is posted to and the targetOrigin argument of postMessage.
Blank ==
  [type |-> "", target |-> "", targetOrigin |-> "", for |-> NoId, ok |-> FALSE,
   error |-> "", from |-> "", to |-> "", square |-> "", message |-> "",
   ctxType |-> "", ctxMessage |-> ""]

post(type, payload, pw, ao) ==
  [payload EXCEPT !.type = type,
                  !.target = IF pw = NoWindow THEN ParentWin ELSE pw,
                  !.targetOrigin = IF ao = WILDCARD THEN WILDCARD ELSE ao]

ack(forId, ok, err, pw, ao) ==
  post("ack", [Blank EXCEPT !.for = forId, !.ok = ok, !.error = err], pw, ao)

error(msg, ctxType, ctxMessage, pw, ao) ==
  post("error", [Blank EXCEPT !.message = msg, !.ctxType = ctxType,
                              !.ctxMessage = ctxMessage], pw, ao)

\* The callbacks ensureBoard wires: onReady, onMove, onSelect, onError.
postCallback(cb, pw, ao) ==
  CASE cb.type = "ready" -> post("ready", Blank, pw, ao)
    [] cb.type = "move" -> post("move", [Blank EXCEPT !.from = cb.from, !.to = cb.to], pw, ao)
    [] cb.type = "select" -> post("select", [Blank EXCEPT !.square = cb.square], pw, ao)
    [] cb.type = "error" -> error(cb.message, "", "", pw, ao)

postCallbacks(cbs, pw, ao) == [i \in 1..Len(cbs) |-> postCallback(cbs[i], pw, ao)]

\* The #app root is part of the page, so ensureBoard finds it.
ensureBoard(ctrl) == IF ctrl.exists THEN ctrl ELSE NewController

\* ------------------------------------------------------------ inbound side
NoPayload ==
  [present |-> FALSE, orientation |-> "", playerColor |-> "", fen |-> FenStart,
   turnColor |-> "", dests |-> [ok |-> TRUE, list |-> <<>>], color |-> "white",
   enabled |-> FALSE, free |-> FALSE]

\* if (id): an absent id and a falsy one are treated alike.
Truthy(id) == id # NoId /\ id # ""

\* The message of the exception a handler raised (engine text, kept abstract).
ThrownMessage == "TypeError"

\* Mutants of the origin check: left out, and with the comparison inverted.
OriginOkOff(origin) == TRUE
OriginOkInverted(origin) == ~(allowedOrigin # WILDCARD /\ origin = allowedOrigin)

OriginOk(origin) == ~(allowedOrigin # WILDCARD /\ origin # allowedOrigin)

\* Mutant of the envelope validation: the version is not compared.
EnvelopeOkAnyVersion(data) == data.object /\ data.type # ""

EnvelopeOk(data) == data.object /\ data.version = VERSION /\ data.type # ""

\* The board method a command of a known type other than init, setTheme and
\* reset calls, on the controller ensureBoard returned.
callBoard(type, payload, board, t) ==
  CASE type = "setPosition" -> setPosition(board, payload, t)
    [] type = "setLegalDests" -> setLegalDests(board, payload.dests)
    [] type = "setPremoveDests" -> setPremoveDests(board, payload.dests)
    [] type = "setTurn" -> setTurn(board, payload.color)
    [] type = "setDraggable" ->
         setDraggable(board, payload.enabled,
                      IF payload.playerColor = "" THEN "both" ELSE payload.playerColor)
    [] type = "setFreeMode" -> setFreeMode(board, payload.free)
    [] type = "clearPremoves" -> clearPremoves(board)
    [] type = "playPremove" -> playPremove(board)
    [] type = "flip" -> flip(board)
    [] type = "setSize" -> setSize(board)

\* What a run of the switch leaves behind: the module state and the posts.
Result(ao, ctrl, byParent, posts, how) ==
  [allowedOrigin |-> ao, controller |-> ctrl, initializedByParent |-> byParent,
   sent |-> posts, outcome |-> how]

\* if (id) ack(id, ok, error)
ackIfId(id, ok, err, pw, ao) ==
  IF Truthy(id) THEN <<ack(id, ok, err, pw, ao)>> ELSE <<>>

\* Mutant of the counterpart handle: taken anew from every message.
counterpartLatest(pw, source) == source

\* parentWindow = parentWindow || evt.source
counterpart(pw, source) == IF pw = NoWindow THEN source ELSE pw

\* allowedOrigin = evt.origin || '*'
adoptOrigin(origin) == IF origin = "" THEN WILDCARD ELSE origin

\* Mutant of case 'init': the ack is posted before the board is initialised.
caseInitAckFirst(id, payload, origin, constructed, pw) ==
  LET ao == adoptOrigin(origin)
      r == init(ensureBoard(controller), payload, constructed)
  IN Result(ao, r.c, TRUE,
            ackIfId(id, TRUE, "", pw, ao) \o postCallbacks(r.cbs, pw, ao), "ok")

\* case 'init': the origin is adopted, the board made and initialised (its
\* onReady / onError callback posts from inside board.init), then the ack.
caseInit(id, payload, origin, constructed, pw) ==
  LET ao == adoptOrigin(origin)
      r == init(ensureBoard(controller), payload, constructed)
  IN Result(ao, r.c, TRUE,
            postCallbacks(r.cbs, pw, ao) \o ackIfId(id, TRUE, "", pw, ao), "ok")

caseSetTheme(id, pw) ==
  Result(allowedOrigin, controller, initializedByParent,
         ackIfId(id, TRUE, "", pw, allowedOrigin), "ok")

\* Mutant of reset: the surface is destroyed but the controller is kept.
caseResetKeepsController(id, pw) ==
  Result(allowedOrigin, [controller EXCEPT !.cg = NoCg], initializedByParent,
         ackIfId(id, TRUE, "", pw, allowedOrigin), "ok")

caseReset(id, pw) ==
  Result(allowedOrigin, NoController, initializedByParent,
         ackIfId(id, TRUE, "", pw, allowedOrigin), "ok")

\* Mutant of the default case: it reports like the catch block does.
caseDefaultWithError(id, type, pw) ==
  Result(allowedOrigin, controller, initializedByParent,
         ackIfId(id, FALSE, "Unknown type " \o type, pw, allowedOrigin)
           \o <<error("handler exception", type, "Unknown type " \o type, pw, allowedOrigin)>>,
         "unknown")

\* default: the type is none of the cases.
caseDefault(id, type, pw) ==
  Result(allowedOrigin, controller, initializedByParent,
         ackIfId(id, FALSE, "Unknown type " \o type, pw, allowedOrigin), "unknown")

\* Mutant of the catch block: the standalone error event is left out.
catchBlockSilent(id, type, pw) == ackIfId(id, FALSE, ThrownMessage, pw, allowedOrigin)

\* catch (e): what is posted once a handler has raised.
catchBlock(id, type, pw) ==
  ackIfId(id, FALSE, ThrownMessage, pw, allowedOrigin)
    \o <<error("handler exception", type, ThrownMessage, pw, allowedOrigin)>>

\* The cases that call one board method and then acknowledge.
caseBoard(id, type, payload, pw, t) ==
  LET r == callBoard(type, payload, ensureBoard(controller), t)
      cbs == postCallbacks(r.cbs, pw, allowedOrigin)
  IN IF r.threw
     THEN Result(allowedOrigin, r.c, initializedByParent,
                 cbs \o catchBlock(id, type, pw), "threw")
     ELSE Result(allowedOrigin, r.c, initializedByParent,
                 cbs \o ackIfId(id, TRUE, "", pw, allowedOrigin), "ok")

\* The switch of the message listener inside its try/catch.
dispatch(data, origin, constructed, pw, t) ==
  CASE data.type = "init" -> caseInit(data.id, data.payload, origin, constructed, pw)
    [] data.type = "setTheme" -> caseSetTheme(data.id, pw)
    [] data.type = "reset" -> caseReset(data.id, pw)
    [] data.type \notin KnownTypes -> caseDefault(data.id, data.type, pw)
    [] OTHER -> caseBoard(data.id, data.type, data.payload, pw, t)

\* ------------------------------------------------------- inputs explored
D1 == <<<<"e2", <<"e4", "d2">>>>>>
P1 == <<<<"e2", <<"e4">>>>>>
GoodDests(list) == [ok |-> TRUE, list |-> list]
BadDests == [ok |-> FALSE, list |-> <<>>]

Envelope(type, version, id, payload) ==
  [object |-> TRUE, version |-> version, type |-> type, id |-> id, payload |-> payload]

\* evt.data of a message that is no envelope object (a string, null).
Junk == [Envelope("", 0, NoId, NoPayload) EXCEPT !.object = FALSE]

InvalidData ==
  {Junk, Envelope("flip", VERSION + 1, "a", NoPayload), Envelope("", VERSION, "a", NoPayload)}

Host == "https://host"
Evil == "https://evil"

\* A MessageEvent: its origin, its source, its data, and whether the surface
\* can be constructed should the handler construct one.
Message(origin, source, data, constructed) ==
  [origin |-> origin, source |-> source, data |-> data, constructed |-> constructed]

\* The payloads tried with each command type in the protocol runs: one the
\* handler accepts and, where the handler reads its payload, one it chokes on.
ProtoPayloads(type) ==
  CASE type = "init" -> {[NoPayload EXCEPT !.present = TRUE, !.playerColor = "white"]}
    [] type = "setPosition" ->
         {NoPayload, [NoPayload EXCEPT !.present = TRUE, !.fen = FenStart]}
    [] type = "setLegalDests" ->
         {[NoPayload EXCEPT !.present = TRUE, !.dests = d] : d \in {GoodDests(D1), BadDests}}
    [] type = "setPremoveDests" ->
         {[NoPayload EXCEPT !.present = TRUE, !.dests = d] : d \in {GoodDests(P1), BadDests}}
    [] type = "setTurn" -> {[NoPayload EXCEPT !.present = TRUE, !.color = "white"]}
    [] type = "setDraggable" ->
         {[NoPayload EXCEPT !.present = TRUE, !.enabled = TRUE, !.playerColor = "white"]}
    [] type = "setFreeMode" -> {[NoPayload EXCEPT !.present = TRUE, !.free = FALSE]}
    [] OTHER -> {NoPayload}

ProtoMessages ==
  UNION {{Message(Host, "w1", Envelope(type, VERSION, id, payload), TRUE) :
            payload \in ProtoPayloads(type), id \in {NoId, "", "a"}} :
         type \in KnownTypes \cup UnknownTypes}
  \cup {Message(Host, "w1", Envelope("init", VERSION, id, payload), FALSE) :
          payload \in ProtoPayloads("init"), id \in {NoId, "a"}}
  \cup UNION {{Message(sender[1], sender[2], Envelope(type, VERSION, "b", payload), TRUE) :
                 sender \in {<<Host, "w2">>, <<Evil, "w2">>},
                 payload \in ProtoPayloads(type)} :
               type \in {"init", "reset"}}
  \cup {Message(sender[1], sender[2], data, TRUE) :
          sender \in {<<Host, "w1">>, <<Evil, "w2">>}, data \in InvalidData}

\* The messages of the runs with a user at the board: the host drives a game
\* as white, another window sends the same commands, and noise arrives.
BoardPayloads(type) ==
  CASE type = "init" -> {[NoPayload EXCEPT !.present = TRUE, !.playerColor = "white"]}
    [] type = "setPosition" ->
         {[NoPayload EXCEPT !.present = TRUE, !.fen = FenAfter, !.turnColor = "black"]}
    [] type = "setLegalDests" -> {[NoPayload EXCEPT !.present = TRUE, !.dests = GoodDests(D1)]}
    [] type = "setPremoveDests" -> {[NoPayload EXCEPT !.present = TRUE, !.dests = GoodDests(P1)]}
    [] type = "setTurn" -> {[NoPayload EXCEPT !.present = TRUE, !.color = col] : col \in Colors}
    [] OTHER -> {NoPayload}

BoardTypes ==
  {"init", "setPosition", "setLegalDests", "setPremoveDests", "setTurn", "reset"}
  \cup UnknownTypes

BoardMessages ==
  UNION {{Message(Host, "w1", Envelope(type, VERSION, "a", payload), TRUE) :
            payload \in BoardPayloads(type)} : type \in BoardTypes}
  \cup UNION {{Message(Evil, "w2", Envelope(type, VERSION, "b", payload), TRUE) :
                 payload \in BoardPayloads(type)} :
               type \in {"setPosition", "setPremoveDests", "reset"}}
  \cup {Message(Host, "w1", Envelope(type, VERSION, NoId, NoPayload), TRUE) :
          type \in UnknownTypes}
  \cup {Message(Host, "w1", data, TRUE) : data \in InvalidData}

SelectKeys == {"e2"}
UserMoves == {<<"e2", "e4">>}
UserPremoves == {<<"e2", "e4">>}

\* ----------------------------------------------------------------- actions
Init ==
  /\ allowedOrigin = WILDCARD
  /\ parentWindow = NoWindow
  /\ controller = NoController
  /\ initializedByParent = FALSE
  /\ loaded = FALSE
  /\ timer = "unarmed"
  /\ now = StartMs
  /\ evt = [kind |-> "none"]
  /\ sent = <<>>
  /\ outcome = "none"

\* The load listener: hello is posted and the fallback timer armed.
Load ==
  /\ ~loaded
  /\ loaded' = TRUE
  /\ timer' = "armed"
  /\ evt' = [kind |-> "load"]
  /\ sent' = <<post("hello", Blank, parentWindow, allowedOrigin)>>
  /\ outcome' = "ok"
  /\ UNCHANGED <<allowedOrigin, parentWindow, controller, initializedByParent, now>>

\* Mutant of the fallback timer: it self-initialises whether or not the host
\* has sent init.
FallbackUnconditional(constructed) ==
  /\ timer = "armed"
  /\ timer' = "fired"
  /\ evt' = [kind |-> "timer", constructed |-> constructed]
  /\ outcome' = "ok"
  /\ LET r1 == init(ensureBoard(controller),
                    [NoPayload EXCEPT !.orientation = "white", !.playerColor = "both"],
                    constructed)
         r2 == setPosition(r1.c, [NoPayload EXCEPT !.present = TRUE, !.fen = FenStart,
                                    !.turnColor = "white", !.orientation = "white"], now)
         r3 == setFreeMode(r2.c, TRUE)
     IN /\ controller' = r3.c
        /\ sent' = postCallbacks(r1.cbs, parentWindow, allowedOrigin)
  /\ UNCHANGED <<allowedOrigin, parentWindow, initializedByParent, loaded, now>>

\* The fallback timer fires (some time after load; the delay is not modelled).
Fallback(constructed) ==
  /\ timer = "armed"
  /\ timer' = "fired"
  /\ evt' = [kind |-> "timer", constructed |-> constructed]
  /\ outcome' = "ok"
  /\ IF initializedByParent
     THEN /\ sent' = <<>>
          /\ UNCHANGED controller
     ELSE LET r1 == init(ensureBoard(controller),
                         [NoPayload EXCEPT !.orientation = "white", !.playerColor = "both"],
                         constructed)
              r2 == setPosition(r1.c, [NoPayload EXCEPT !.present = TRUE, !.fen = FenStart,
                                         !.turnColor = "white", !.orientation = "white"], now)
              r3 == setFreeMode(r2.c, TRUE)
          IN /\ controller' = r3.c
             /\ sent' = postCallbacks(r1.cbs, parentWindow, allowedOrigin)
  /\ UNCHANGED <<allowedOrigin, parentWindow, initializedByParent, loaded, now>>

\* The message listener, for one MessageEvent.
Receive(m) ==
  /\ evt' = [kind |-> "message", origin |-> m.origin, source |-> m.source,
             data |-> m.data, constructed |-> m.constructed]
  /\ IF ~OriginOk(m.origin) \/ ~EnvelopeOk(m.data)
     THEN /\ sent' = <<>>
          /\ outcome' = "dropped"
          /\ UNCHANGED <<allowedOrigin, parentWindow, controller, initializedByParent>>
     ELSE LET pw == counterpart(parentWindow, m.source)
              r == dispatch(m.data, m.origin, m.constructed, pw, now)
          IN /\ parentWindow' = pw
             /\ allowedOrigin' = r.allowedOrigin
             /\ controller' = r.controller
             /\ initializedByParent' = r.initializedByParent
             /\ sent' = r.sent
             /\ outcome' = r.outcome
  /\ UNCHANGED <<loaded, timer, now>>

\* A callback of the surface or a DOM listener of the board element ran.
Callback(e, r) ==
  /\ controller' = r.c
  /\ evt' = e
  /\ sent' = postCallbacks(r.cbs, parentWindow, allowedOrigin)
  /\ outcome' = "ok"
  /\ UNCHANGED <<allowedOrigin, parentWindow, initializedByParent, loaded, timer, now>>

SurfaceMove(orig, dest) ==
  /\ controller.cg.alive
  /\ canMove(controller.cg, orig, dest)
  /\ Callback([kind |-> "move", orig |-> orig, dest |-> dest],
              userMove(controller, orig, dest))

SurfaceSelect(key) ==
  /\ controller.cg.alive
  /\ Callback([kind |-> "select", key |-> key], eventsSelect(controller, key, now))

\* The user premoves: the surface makes it its current premove and reports it.
SurfacePremove(orig, dest) ==
  /\ controller.cg.alive
  /\ controller.cg.pieces[orig] # ""
  /\ controller.cg.movableColor = controller.cg.pieces[orig]
  /\ controller.cg.turnColor # controller.cg.pieces[orig]
  /\ Callback([kind |-> "premove", orig |-> orig, dest |-> dest],
              premovableSet([controller EXCEPT !.cg.current = <<orig, dest>>], orig, dest))

SurfaceUnset ==
  /\ controller.cg.alive
  /\ controller.cg.current # <<>>
  /\ Callback([kind |-> "unset"], unsetPremove(controller))

ContextMenu ==
  /\ controller.exists
  /\ Callback([kind |-> "contextmenu"], contextmenu(controller))

PointerDown(key) ==
  /\ controller.exists
  /\ Callback([kind |-> "pointerdown", key |-> key], pointerdown(controller, key))

\* Time passes between two events, up to `last`.
Elapse(last) ==
  /\ now < last
  /\ now' = now + TickMs
  /\ evt' = [kind |-> "tick"]
  /\ sent' = <<>>
  /\ outcome' = "none"
  /\ UNCHANGED <<allowedOrigin, parentWindow, controller, initializedByParent, loaded, timer>>

Tick == Elapse(MaxNow)

\* The host protocol: the page loads, the host (and other windows) send
\* messages, the fallback timer fires.
Next ==
  \/ Load
  \/ \E constructed \in BOOLEAN : Fallback(constructed)
  \/ \E m \in ProtoMessages : Receive(m)

Spec == Init /\ [][Next]_vars

\* The board in use: host commands, messages from elsewhere, and the user's
\* gestures as the surface and the board element report them.
NextBoard ==
  \/ \E m \in BoardMessages : Receive(m)
  \/ \E m \in UserMoves : SurfaceMove(m[1], m[2])
  \/ \E key \in SelectKeys \cup {""} : SurfaceSelect(key)
  \/ \E m \in UserPremoves : SurfacePremove(m[1], m[2])
  \/ SurfaceUnset
  \/ ContextMenu
  \/ \E key \in SelectKeys : PointerDown(key)
  \/ Tick

SpecBoard == Init /\ [][NextBoard]_vars

\* The reconciler at work: one host drives the board with every command that
\* touches destinations, turn and premoves, and the user moves, selects,
\* premoves, right-clicks and presses squares.
D2 == <<<<"d2", <<"e4">>>>>>

ReconcilerPayloads(type) ==
  CASE type = "init" -> {[NoPayload EXCEPT !.present = TRUE, !.playerColor = "white"]}
    [] type = "setPosition" ->
         {[NoPayload EXCEPT !.present = TRUE, !.fen = fen] : fen \in Fens}
    [] type = "setLegalDests" ->
         {[NoPayload EXCEPT !.present = TRUE, !.dests = GoodDests(d)] : d \in {D1, D2}}
    [] type = "setPremoveDests" ->
         {[NoPayload EXCEPT !.present = TRUE, !.dests = GoodDests(d)] : d \in {P1, <<>>}}
    [] type = "setTurn" -> {[NoPayload EXCEPT !.present = TRUE, !.color = col] : col \in Colors}
    [] type = "setDraggable" ->
         {[NoPayload EXCEPT !.present = TRUE, !.enabled = TRUE, !.playerColor = col] :
            col \in {"white", ""}}
    [] type = "setFreeMode" -> {[NoPayload EXCEPT !.present = TRUE, !.free = TRUE]}
    [] OTHER -> {NoPayload}

ReconcilerTypes ==
  {"init", "setPosition", "setLegalDests", "setPremoveDests", "setTurn",
   "setDraggable", "setFreeMode", "clearPremoves", "playPremove"}

ReconcilerMessages ==
  UNION {{Message(Host, "w1", Envelope(type, VERSION, "a", payload), TRUE) :
            payload \in ReconcilerPayloads(type)} : type \in ReconcilerTypes}

LockPremoves == {<<"e2", "e4">>, <<"d2", "e4">>}
PressKeys == {"e2", "d2"}

NextReconciler ==
  \/ \E m \in ReconcilerMessages : Receive(m)
  \/ \E m \in UserMoves : SurfaceMove(m[1], m[2])
  \/ \E key \in SelectKeys \cup {""} : SurfaceSelect(key)
  \/ \E m \in LockPremoves : SurfacePremove(m[1], m[2])
  \/ SurfaceUnset
  \/ ContextMenu
  \/ \E key \in PressKeys : PointerDown(key)

SpecReconciler == Init /\ [][NextReconciler]_vars

\* The same-colour filter by itself: a board of the host with any pieces on
\* its squares takes its first legal mapping, one or two origins with up to
\* MaxTos destinations each.
PieceMaps == [Squares -> {"", "white", "black"}]
FilterOrigins == {<<"e2">>, <<"e7">>, <<"e2", "e7">>, <<"e7", "e2">>}
FilterTargets == {"e4", "d2", "e7"}
FilterTos == UNION {[1..n -> FilterTargets] : n \in 1..MaxTos}
FilterMappings ==
  UNION {{[i \in 1..Len(origs) |-> <<origs[i], tos[i]>>] :
            tos \in [1..Len(origs) -> FilterTos]} : origs \in FilterOrigins}

FilterMessages ==
  {Message(Host, "w1",
           Envelope("setLegalDests", VERSION, "a",
                    [NoPayload EXCEPT !.present = TRUE, !.dests = GoodDests(d)]), TRUE) :
     d \in FilterMappings}

InitFilter ==
  /\ allowedOrigin = Host
  /\ parentWindow = "w1"
  /\ \E pieces \in PieceMaps :
        controller = [NewController EXCEPT
                        !.cg = [Chessground([NoPayload EXCEPT !.playerColor = "white"])
                                  EXCEPT !.pieces = pieces]]
  /\ initializedByParent = TRUE
  /\ loaded = TRUE
  /\ timer = "fired"
  /\ now = StartMs
  /\ evt = [kind |-> "none"]
  /\ sent = <<>>
  /\ outcome = "none"

\* The board takes its first legal mapping.
FirstLegalDests ==
  /\ ~controller.lastLegalMap.set
  /\ \E m \in FilterMessages : Receive(m)

NextFilter == FirstLegalDests

SpecFilter == InitFilter /\ [][NextFilter]_vars

\* The board's time windows: the host pushes positions, turns and destination
\* mappings (empty ones too) while the user selects and deselects and time
\* passes for longer than both windows.
ClockPayloads(type) ==
  CASE type = "init" -> {[NoPayload EXCEPT !.present = TRUE, !.playerColor = "white"]}
    [] type = "setPosition" ->
         {[NoPayload EXCEPT !.present = TRUE, !.fen = fen] : fen \in Fens}
    [] type = "setLegalDests" ->
         {[NoPayload EXCEPT !.present = TRUE, !.dests = GoodDests(d)] : d \in {D1, <<>>}}
    [] type = "setPremoveDests" ->
         {[NoPayload EXCEPT !.present = TRUE, !.dests = GoodDests(d)] : d \in {P1, <<>>}}
    [] type = "setTurn" -> {[NoPayload EXCEPT !.present = TRUE, !.color = col] : col \in Colors}
    [] OTHER -> {NoPayload}

ClockTypes == {"init", "setPosition", "setLegalDests", "setPremoveDests", "setTurn"}

ClockMessages ==
  UNION {{Message(Host, "w1", Envelope(type, VERSION, "a", payload), TRUE) :
            payload \in ClockPayloads(type)} : type \in ClockTypes}

NextClock ==
  \/ \E m \in ClockMessages : Receive(m)
  \/ \E m \in UserMoves : SurfaceMove(m[1], m[2])
  \/ \E key \in SelectKeys \cup {""} : SurfaceSelect(key)
  \/ Elapse(MaxClockNow)

SpecClock == Init /\ [][NextClock]_vars

\* ------------------------------------------------------------------ claims
IsMessage == evt.kind = "message"

\* An envelope as the protocol defines it: an object of version 1 with a type.
WellFormed(data) == data.object /\ data.version = 1 /\ data.type # ""

\* The last handler ran for a message that passed the origin check and the
\* envelope validation. (The origin is compared with the trusted origin after
\* the handler: it is the one before it, unless this message set it.)
Accepted ==
  /\ IsMessage
  /\ allowedOrigin = WILDCARD \/ evt.origin = allowedOrigin
  /\ WellFormed(evt.data)

\* The step handles a message that passes both checks in the state before it.
AcceptedNext ==
  /\ evt'.kind = "message"
  /\ allowedOrigin = WILDCARD \/ evt'.origin = allowedOrigin
  /\ WellFormed(evt'.data)

IsAck(p) == p.type = "ack"
AcksIn(posts) == SelectSeq(posts, IsAck)
OneAckFor(posts, id) == Len(AcksIn(posts)) = 1 /\ AcksIn(posts)[1].for = id

\* The whole module state apart from the record of the last handler.
session == <<allowedOrigin, parentWindow, controller, initializedByParent, loaded, timer, now>>

\* C1 (as claimed): every accepted command that carries an id, whatever the
\* id's value, is answered by exactly one ack, whose `for` is that id.
C1_EveryIdAcked ==
  (Accepted /\ evt.data.id # NoId) => OneAckFor(sent, evt.data.id)

\* C2 (as claimed): a setPosition with an id that follows a reset, no init in
\* between, is answered with ack{ok:false} and not with ack{ok:true}.
C2_SetPositionAfterResetFails ==
  [][(/\ Accepted /\ evt.data.type = "reset"
      /\ AcceptedNext /\ evt'.data.type = "setPosition"
      /\ evt'.data.id \notin {NoId, ""})
     => /\ OneAckFor(sent', evt'.data.id)
        /\ ~AcksIn(sent')[1].ok]_vars

\* The step is an accepted init with an id for a widget without a board.
FreshInit ==
  /\ AcceptedNext
  /\ evt'.data.type = "init"
  /\ controller = NoController

\* C3 (as claimed): for an init with an id on a freshly loaded widget the
\* ack{for:id, ok:true} is posted before ready{}.
C3_AckThenReady ==
  [][(FreshInit /\ evt'.data.id \notin {NoId, ""})
     => \E i, j \in 1..Len(sent') :
          /\ i < j
          /\ sent'[i].type = "ack" /\ sent'[i].for = evt'.data.id /\ sent'[i].ok
          /\ sent'[j].type = "ready"]_vars

\* C3 (amended): for an init on a freshly loaded widget whose surface is
\* constructed, ready{} is the first message posted and the ack{for:id,
\* ok:true}, posted when the id is not empty, is the second and last one.
C3_ReadyThenAck ==
  [][(FreshInit /\ evt'.constructed)
     => /\ Len(sent') >= 1 /\ sent'[1].type = "ready"
        /\ IF evt'.data.id \notin {NoId, ""}
           THEN /\ Len(sent') = 2
                /\ sent'[2].type = "ack" /\ sent'[2].for = evt'.data.id /\ sent'[2].ok
           ELSE Len(sent') = 1]_vars

C3_Witness ==
  /\ Accepted /\ evt.data.type = "init" /\ evt.data.id = "a" /\ evt.constructed
  /\ Len(sent) = 2 /\ sent[1].type = "ready" /\ sent[2].type = "ack"

\* C4: the trusted origin changes at most once, from the wildcard to the
\* origin of an init message, and no later step changes it.
C4_TrustedOriginOnce ==
  [][/\ allowedOrigin # WILDCARD => allowedOrigin' = allowedOrigin
     /\ (allowedOrigin = WILDCARD /\ allowedOrigin' # WILDCARD)
        => /\ evt'.kind = "message"
           /\ evt'.data.type = "init"
           /\ allowedOrigin' = evt'.origin]_vars

\* An init from another origin has arrived after the origin was adopted.
C4_Witness ==
  /\ IsMessage /\ WellFormed(evt.data) /\ evt.data.type = "init"
  /\ allowedOrigin = Host /\ evt.origin = Evil

\* C5 (as claimed): every message posted other than hello goes to a concrete
\* target origin, never to the wildcard.
C5_OnlyHelloToWildcard ==
  \A i \in 1..Len(sent) : sent[i].type # "hello" => sent[i].targetOrigin # WILDCARD

\* C6: once the trusted origin is concrete, a message from another origin
\* changes nothing of the state and posts nothing.
C6_ForeignOriginDropped ==
  [][(/\ evt'.kind = "message"
      /\ allowedOrigin # WILDCARD
      /\ evt'.origin # allowedOrigin)
     => (UNCHANGED session /\ sent' = <<>>)]_vars

\* A well-formed command from another origin has been dropped while the board
\* held a committed premove, a selection and cached destinations.
C6_Witness ==
  /\ IsMessage /\ WellFormed(evt.data) /\ evt.origin = Evil /\ allowedOrigin = Host
  /\ sent = <<>>
  /\ controller.cg.alive
  /\ controller.savedPremCurrent # <<>>
  /\ controller.lastSelectedKey # ""
  /\ controller.lastPremoveMap.set

\* C7: the counterpart handle is set from the source of the first accepted
\* message and never changes; once set, every post goes to it.
C7_CounterpartSetOnce ==
  [][/\ parentWindow # NoWindow => parentWindow' = parentWindow
     /\ (parentWindow = NoWindow /\ AcceptedNext) => parentWindow' = evt'.source
     /\ (parentWindow = NoWindow /\ ~AcceptedNext) => parentWindow' = NoWindow
     /\ parentWindow' # NoWindow
        => \A i \in 1..Len(sent') : sent'[i].target = parentWindow']_vars

\* A message from a second window has been answered to the first one.
C7_Witness ==
  /\ Accepted /\ evt.source = "w2" /\ parentWindow = "w1"
  /\ Len(sent) = 1 /\ sent[1].target = "w1"

\* C8: a message that is no object, or whose version is not 1, or that has
\* no type, changes nothing of the state and posts nothing.
C8_MalformedDropped ==
  [][(evt'.kind = "message" /\ ~WellFormed(evt'.data))
     => (UNCHANGED session /\ sent' = <<>>)]_vars

\* An envelope of another version has been dropped while the board held a
\* committed premove and cached destinations.
C8_Witness ==
  /\ IsMessage /\ evt.data.object /\ evt.data.version # 1 /\ evt.data.type # ""
  /\ sent = <<>>
  /\ controller.cg.alive
  /\ controller.savedPremCurrent # <<>>
  /\ controller.lastPremoveMap.set

\* C9: an accepted envelope of an unrecognised type leaves the controller
\* (board, lock, caches, selection) as it is and posts one ack{ok:false,
\* error:"Unknown type <type>"} when the id is not empty, and nothing else.
C9_UnknownType ==
  [][(AcceptedNext /\ evt'.data.type \notin KnownTypes)
     => /\ controller' = controller
        /\ IF evt'.data.id \notin {NoId, ""}
           THEN /\ Len(sent') = 1
                /\ sent'[1].type = "ack"
                /\ sent'[1].for = evt'.data.id
                /\ ~sent'[1].ok
                /\ sent'[1].error = "Unknown type " \o evt'.data.type
           ELSE sent' = <<>>]_vars

\* An unknown type has been refused while a premove was committed.
C9_Witness ==
  /\ Accepted /\ evt.data.type \notin KnownTypes /\ evt.data.id = "a"
  /\ Len(sent) = 1
  /\ controller.cg.alive
  /\ controller.savedPremCurrent # <<>>

\* C10: when the handler of a recognised command has raised, exactly one
\* error event is posted, preceded by an ack{ok:false, error} when the id is
\* not empty; and the command after it is dispatched and acknowledged.
C10_HandlerExceptionReported ==
  /\ [](outcome = "threw"
        => /\ evt.data.type \in KnownTypes
           /\ IF evt.data.id \notin {NoId, ""}
              THEN /\ Len(sent) = 2
                   /\ sent[1].type = "ack" /\ sent[1].for = evt.data.id
                   /\ ~sent[1].ok /\ sent[1].error # ""
                   /\ sent[2].type = "error"
              ELSE Len(sent) = 1 /\ sent[1].type = "error")
  /\ [][(outcome = "threw" /\ AcceptedNext /\ evt'.data.id \notin {NoId, ""})
        => OneAckFor(sent', evt'.data.id)]_vars

C10_Witness ==
  /\ outcome = "threw" /\ evt.data.id = "a" /\ Len(sent) = 2
  /\ controller.cg.alive

\* ---------------------------------------------- claims on the destination sets
\* A destination mapping with at least one entry.
NonEmpty(map) == map.set /\ map.m # <<>>
\* The entries of a mapping; null, undefined and an empty Map have none.
Entries(map) == IF map.set THEN map.m ELSE <<>>

LegalShown == NonEmpty(controller.cg.movableDests)
PremoveShown == NonEmpty(controller.cg.customDests)

\* The last handler ran the accepted host command `type`.
Ran(type) == Accepted /\ evt.data.type = type
\* The step runs the accepted host command `type`.
Runs(type) == AcceptedNext /\ evt'.data.type = type

\* C11: in every reachable state at most one of the surface's legal and
\* premove destination sets is non-empty.
C11_AtMostOneDestSet == ~(LegalShown /\ PremoveShown)

\* setFreeMode has re-applied a cached premove mapping, and nothing legal shows.
C11_Witness ==
  /\ Ran("setFreeMode") /\ controller.cg.alive
  /\ PremoveShown /\ controller.lastPremoveMap.set /\ ~LegalShown

\* The step runs `second` with a non-empty mapping on a live board, right
\* after `first` ran with a non-empty mapping.
DestsPair(first, second) ==
  /\ Ran(first) /\ evt.data.payload.dests.list # <<>>
  /\ Runs(second) /\ evt'.data.payload.dests.list # <<>>
  /\ controller.cg.alive

DestsPairStep ==
  \/ DestsPair("setLegalDests", "setPremoveDests")
  \/ DestsPair("setPremoveDests", "setLegalDests")

\* The legal mapping of the pair, as the host supplied it.
SuppliedLegal ==
  IF evt.data.type = "setLegalDests"
  THEN evt.data.payload.dests.list
  ELSE evt'.data.payload.dests.list

\* C12 (as claimed): after setLegalDests and setPremoveDests back to back, in
\* either order and with non-empty mappings, exactly one of the two sets is
\* non-empty on the surface.
C12_ExactlyOneAfterPair ==
  [][DestsPairStep
     => (NonEmpty(controller'.cg.movableDests) # NonEmpty(controller'.cg.customDests))]_vars

\* C12 (amended): after such a pair the two sets are never both non-empty, and
\* one of them is non-empty whenever the same-colour filter leaves the
\* supplied legal mapping an entry.
C12_ExactlyOneUnlessFiltered ==
  [][DestsPairStep
     => /\ ~(NonEmpty(controller'.cg.movableDests) /\ NonEmpty(controller'.cg.customDests))
        /\ filterDests(SuppliedLegal, controller.cg.pieces) # <<>>
           => (NonEmpty(controller'.cg.movableDests) \/ NonEmpty(controller'.cg.customDests))]_vars

\* Off turn, setPremoveDests has replaced the legal destinations that the
\* setLegalDests before it had put on the surface.
C12_Witness ==
  /\ Ran("setPremoveDests") /\ evt.data.payload.dests.list # <<>>
  /\ controller.cg.alive /\ ~isPlayersTurn(controller.cg)
  /\ PremoveShown /\ ~LegalShown /\ ~controller.lastLegalMap.set

\* The surface of controller c shows what is authoritative for its turn state:
\* on turn the cached legal mapping and no premove destinations, off turn no
\* legal destinations and the cached premove mapping, if there is one.
Authoritative(c) ==
  IF isPlayersTurn(c.cg)
  THEN /\ Entries(c.cg.movableDests) = Entries(c.lastLegalMap)
       /\ ~NonEmpty(c.cg.customDests)
  ELSE /\ ~NonEmpty(c.cg.movableDests)
       /\ c.lastPremoveMap.set => c.cg.customDests = c.lastPremoveMap

\* C13: right after every setPosition, setTurn and setDraggable on a live
\* board the surface shows the destination set that is authoritative for the
\* turn state the command leaves.
C13_AuthoritativeAfterCommand ==
  [][((Runs("setPosition") \/ Runs("setTurn") \/ Runs("setDraggable"))
      /\ controller'.cg.alive)
     => Authoritative(controller')]_vars

\* A setTurn has handed the turn to the player and brought the cached legal
\* mapping back to the surface.
C13_Witness ==
  /\ Ran("setTurn") /\ controller.cg.alive /\ isPlayersTurn(controller.cg)
  /\ LegalShown /\ controller.cg.movableDests = controller.lastLegalMap

\* C14 (as claimed): right after a setFreeMode on a live board the surface
\* shows the destination set that is authoritative for the turn state; legal
\* destinations never show while the player is off turn.
C14_FreeModeAuthoritative ==
  [][(Runs("setFreeMode") /\ controller'.cg.alive) => Authoritative(controller')]_vars

\* A shown legal destination `to` of origin `orig` is a square that holds a
\* piece of the colour of the piece on `orig`.
OwnPieceOn(cg, orig, to) ==
  /\ cg.pieces[orig] # "" /\ cg.pieces[to] # ""
  /\ cg.pieces[to] = cg.pieces[orig]

\* C15 (as claimed): in every reachable state no legal destination on the
\* surface is occupied by a piece of the colour of the piece on its origin.
C15_NoOwnPieceDestination ==
  \A i \in 1..Len(Entries(controller.cg.movableDests)) :
    LET entry == Entries(controller.cg.movableDests)[i]
    IN \A j \in 1..Len(entry[2]) : ~OwnPieceOn(controller.cg, entry[1], entry[2][j])

\* C16: a setPremoveDests processed on the player's own turn leaves the
\* surface's two destination sets, both cached mappings and the premove lock
\* as they are.
C16_PremoveDestsOnTurnNoOp ==
  [][(Runs("setPremoveDests") /\ controller.cg.alive /\ isPlayersTurn(controller.cg))
     => /\ Entries(controller'.cg.movableDests) = Entries(controller.cg.movableDests)
        /\ Entries(controller'.cg.customDests) = Entries(controller.cg.customDests)
        /\ Entries(controller'.lastLegalMap) = Entries(controller.lastLegalMap)
        /\ Entries(controller'.lastPremoveMap) = Entries(controller.lastPremoveMap)
        /\ controller'.savedPremCurrent = controller.savedPremCurrent
        /\ controller'.cg.current = controller.cg.current
        /\ controller'.allowPremoveClear = controller.allowPremoveClear]_vars

\* A non-empty premove mapping has been refused on the player's turn while
\* legal destinations were showing.
C16_Witness ==
  /\ Ran("setPremoveDests") /\ evt.data.payload.dests.list # <<>>
  /\ controller.cg.alive /\ isPlayersTurn(controller.cg)
  /\ LegalShown /\ ~PremoveShown

\* ------------------------------------------------- claims on the premove lock
\* The premove lock of the board: <<>> is Unlocked, <<a, b>> is Locked(a, b).
Lock == controller.savedPremCurrent
Locked == Lock # <<>>

\* The step is the surface reporting the premove commit it names.
Commits == evt'.kind = "premove"
Committed == <<evt'.orig, evt'.dest>>

\* C17 (as claimed): a premove commit reported while the lock is Unlocked
\* locks it on that premove and posts exactly one notification of it.
C17_CommitLocksAndNotifies ==
  [][(Commits /\ ~Locked)
     => /\ controller'.savedPremCurrent = Committed
        /\ Len(sent') = 1
        /\ sent'[1].from = evt'.orig /\ sent'[1].to = evt'.dest]_vars

\* C18: a commit of another premove reported while Locked(a, b) leaves the
\* lock, puts (a, b) back as the surface's current premove and posts nothing;
\* a repeated attempt leaves the whole board as the first one left it.
C18_DifferentCommitRejected ==
  [][(Commits /\ Locked /\ Committed # Lock)
     => /\ controller'.savedPremCurrent = Lock
        /\ controller'.cg.current = Lock
        /\ sent' = <<>>
        /\ (evt.kind = "premove" /\ <<evt.orig, evt.dest>> # Lock)
           => controller' = controller]_vars

\* A different premove has been turned down: the committed one is back on
\* the surface and the transient selection is gone.
C18_Witness ==
  /\ evt.kind = "premove" /\ Locked /\ <<evt.orig, evt.dest>> # Lock
  /\ controller.cg.current = Lock /\ sent = <<>>
  /\ controller.cg.selected = ""

\* The step is one of the gestures that may release Locked(a, b): a right
\* click, a press on square a, the host's clearPremoves, a completed move (by
\* the user, or the premove played at the host's playPremove).
ReleaseGesture ==
  \/ evt'.kind = "contextmenu"
  \/ evt'.kind = "pointerdown" /\ evt'.key = Lock[1]
  \/ evt'.kind = "move"
  \/ Runs("clearPremoves")
  \/ Runs("playPremove")

\* Every gesture that arms the unset callback releases the lock itself, so a
\* lock that an unset callback finds was committed after the arming.
ArmingGestureReleases ==
  [][(evt'.kind \in {"contextmenu", "pointerdown"} /\ controller'.allowPremoveClear
      /\ (evt'.kind = "contextmenu" \/ ~controller.allowPremoveClear))
     => controller'.savedPremCurrent = <<>>]_vars

\* C19 (as claimed): the lock leaves Locked(a, b) only in a step that is one
\* of the permitted gestures; an unset callback that no gesture made during
\* this commitment has armed does not release it.
C19_ReleasedOnlyByGesture ==
  [][(Locked /\ controller'.exists /\ controller'.savedPremCurrent # Lock)
     => ReleaseGesture]_vars

\* The committed premove is the surface's current premove.
LockShown == Locked => controller.cg.current = Lock

\* C20: a setPosition processed while Locked(a, b) leaves the lock on (a, b)
\* and (a, b) as the surface's current premove.
C20_LockSurvivesPosition ==
  [][(Runs("setPosition") /\ Locked)
     => /\ controller'.savedPremCurrent = Lock
        /\ controller'.cg.current = Lock]_vars

\* A position push has replaced the pieces while a premove was committed.
C20_Witness ==
  /\ Ran("setPosition") /\ Locked /\ controller.cg.current = Lock
  /\ controller.cg.pieces = PiecesOf(evt.data.payload.fen)
  /\ evt.data.payload.fen = FenAfter

\* C21 (as claimed): after a host clearPremoves on a live board the lock is
\* Unlocked and no premove is the surface's current premove.
C21_ClearPremovesUnlocks ==
  [][(Runs("clearPremoves") /\ controller.cg.alive)
     => /\ controller'.savedPremCurrent = <<>>
        /\ controller'.cg.current = <<>>]_vars

\* The step reports a completed move to the host.
ReportsMove == \E i \in 1..Len(sent') : sent'[i].type = "move"

\* C22 (as claimed): after a completed move, the user's own or the premove
\* played at playPremove, the lock is Unlocked.
C22_MoveUnlocks ==
  [][ReportsMove => controller'.savedPremCurrent = <<>>]_vars

\* The step runs the unset callback for a committed premove: the surface
\* drops its current premove by itself, or after playing it at playPremove.
UnsetsLocked ==
  /\ Locked /\ controller.cg.current # <<>>
  /\ evt'.kind = "unset" \/ Runs("playPremove")

\* C23: the unset callback while Locked(a, b) consumes the armed flag and
\* unlocks, or, when the flag is not armed, keeps the lock and puts (a, b)
\* back as the surface's current premove.
C23_UnsetConsumesOrRelocks ==
  [][UnsetsLocked
     => IF controller.allowPremoveClear
        THEN /\ ~controller'.allowPremoveClear
             /\ controller'.savedPremCurrent = <<>>
        ELSE /\ ~controller'.allowPremoveClear
             /\ controller'.savedPremCurrent = Lock
             /\ controller'.cg.current = Lock]_vars

\* An unset that was not armed has been undone: the premove is still
\* committed and showing.
C23_Witness ==
  /\ evt.kind = "unset" /\ Locked /\ controller.cg.current = Lock
  /\ ~controller.allowPremoveClear

\* The step is the surface's select callback without a square (a deselect).
Deselects == evt'.kind = "select" /\ evt'.key = ""

\* Time since the most recent forwarded select of a square.
SinceSelect == now - controller.lastSelectTs

\* C24: a deselect less than 200 ms after the most recent forwarded select
\* posts nothing and changes no state; one arriving 200 ms or more after it
\* posts exactly one select with no square.
C24_DeselectWindow ==
  [][Deselects
     => IF SinceSelect < 200
        THEN sent' = <<>> /\ controller' = controller
        ELSE /\ Len(sent') = 1
             /\ sent'[1].type = "select" /\ sent'[1].square = ""]_vars

\* A deselect at the instant of a select has been swallowed: the square is
\* still remembered and nothing was posted.
C24_Witness ==
  /\ evt.kind = "select" /\ evt.key = ""
  /\ controller.lastSelectedKey # "" /\ SinceSelect < 200
  /\ sent = <<>>

\* The step runs `type` with an empty mapping right after the handler that
\* ran it with a non-empty one: no time has passed in between.
EmptyRightAfterNonEmpty(type) ==
  /\ Ran(type) /\ evt.data.payload.dests.list # <<>>
  /\ Runs(type) /\ evt'.data.payload.dests.list = <<>>
  /\ controller.cg.alive

\* C25 (as claimed): an empty setPremoveDests within 200 ms of a non-empty
\* one leaves the surface's premove destinations and the cached premove
\* mapping as they were.
C25_EmptyPremoveDestsIgnored ==
  [][EmptyRightAfterNonEmpty("setPremoveDests")
     => /\ Entries(controller'.cg.customDests) = Entries(controller.cg.customDests)
        /\ Entries(controller'.lastPremoveMap) = Entries(controller.lastPremoveMap)]_vars

\* The step runs setLegalDests with an empty mapping after a wait of a full
\* tick: every earlier setLegalDests is at least 200 ms old.
EmptyLegalAfterWait ==
  /\ evt.kind = "tick"
  /\ Runs("setLegalDests") /\ evt'.data.payload.dests.list = <<>>
  /\ controller.cg.alive

\* C26 (as claimed): an empty setLegalDests within 200 ms of a non-empty one
\* is ignored; one arriving later empties the surface's legal destinations
\* and the cached legal mapping.
C26_EmptyLegalDestsWindow ==
  [][/\ EmptyRightAfterNonEmpty("setLegalDests")
        => /\ controller'.cg.movableDests = controller.cg.movableDests
           /\ controller'.lastLegalMap = controller.lastLegalMap
     /\ EmptyLegalAfterWait
        => /\ Entries(controller'.cg.movableDests) = <<>>
           /\ Entries(controller'.lastLegalMap) = <<>>]_vars

\* C27: after setPosition on a live board the surface's selection is the
\* user's last selected square if that selection is at most 800 ms old and
\* the player is on turn after the update, and is cleared otherwise.
C27_SelectionReasserted ==
  [][(Runs("setPosition") /\ controller.cg.alive)
     => IF /\ controller.lastSelectedKey # ""
           /\ SinceSelect <= 800
           /\ isPlayersTurn(controller'.cg)
        THEN controller'.cg.selected = controller.lastSelectedKey
        ELSE controller'.cg.selected = ""]_vars

\* A position push has cleared a selection only because it was too old: a
\* square is remembered and the player is on turn.
C27_Witness ==
  /\ Ran("setPosition") /\ controller.cg.alive
  /\ controller.lastSelectedKey # "" /\ isPlayersTurn(controller.cg)
  /\ SinceSelect > 800
  /\ controller.cg.selected = ""

\* The step is the firing of the fallback timer.
TimerFires == evt'.kind = "timer"

\* The board as the fallback sets it up: the start position, white to move
\* and at the bottom, either colour movable, free mode on, nothing shown.
DefaultBoard(cg) ==
  /\ cg.alive
  /\ cg.pieces = PiecesOf(FenStart)
  /\ cg.turnColor = "white" /\ cg.orientation = "white"
  /\ cg.movableColor = "both" /\ cg.free
  /\ Entries(cg.movableDests) = <<>> /\ Entries(cg.customDests) = <<>>
  /\ cg.current = <<>> /\ cg.selected = ""

\* The posts of the step that are `type` events.
PostedNext(type) == {i \in 1..Len(sent') : sent'[i].type = type}

\* C28: initializedByParent is true exactly when a host init has been
\* processed; the timer fires at most once; firing after a host init changes
\* nothing and posts nothing; firing without one builds the default board
\* (where the surface can be constructed) and posts one ready.
C28_FallbackOnlyWithoutInit ==
  [][/\ Runs("init") => initializedByParent'
     /\ initializedByParent => initializedByParent'
     /\ (~initializedByParent /\ initializedByParent') => Runs("init")
     /\ timer = "fired" => ~TimerFires
     /\ TimerFires
        => IF initializedByParent
           THEN /\ sent' = <<>>
                /\ UNCHANGED <<controller, allowedOrigin, parentWindow, initializedByParent>>
           ELSE /\ ~controller.cg.alive
                /\ evt'.constructed
                   => /\ DefaultBoard(controller'.cg)
                      /\ Len(sent') = 1 /\ sent'[1].type = "ready"]_vars

\* The timer has fired after a host init: the board is the host's, not the
\* default one.
C28_Witness ==
  /\ evt.kind = "timer" /\ initializedByParent
  /\ controller.cg.alive /\ controller.cg.movableColor = "white"
  /\ sent = <<>>

\* C29 (as claimed): an init acknowledged with ok:true comes with exactly one
\* ready event (taken where the surface can be constructed).
C29_AckedInitHasReady ==
  [][(/\ Runs("init") /\ evt'.constructed
      /\ \E i \in PostedNext("ack") : sent'[i].ok)
     => Cardinality(PostedNext("ready")) = 1]_vars

\* Nothing of a board is shown or remembered by controller `c`.
NothingKept(c) ==
  /\ c.savedPremCurrent = <<>> /\ ~c.allowPremoveClear
  /\ Entries(c.lastLegalMap) = <<>> /\ Entries(c.lastPremoveMap) = <<>>
  /\ c.lastSelectedKey = ""
  /\ c.cg.current = <<>> /\ c.cg.selected = ""
  /\ Entries(c.cg.movableDests) = <<>> /\ Entries(c.cg.customDests) = <<>>

\* C30: after reset there is no board and nothing is kept of it: the lock is
\* Unlocked, the armed flag false, both caches and the remembered selection
\* empty; the init that follows builds a surface showing no premove, no
\* destinations and no selection.
C30_ResetDiscardsBoard ==
  [][/\ Runs("reset")
        => ~controller'.cg.alive /\ NothingKept(controller')
     /\ (Ran("reset") /\ Runs("init") /\ evt'.constructed)
        => /\ controller'.cg.alive
           /\ NothingKept(controller')]_vars

\* A reset has discarded the board the host had initialised.
C30_Witness ==
  /\ Ran("reset") /\ initializedByParent
  /\ ~controller.exists /\ NothingKept(controller)

\* ---------------------------------------------------------- claims C31-C40
\* The reference filter: every entry loses the destinations that hold a
\* piece of the colour of the piece on its origin, and the entries left
\* without a destination are dropped.
SameColour(pieces, orig, to) ==
  pieces[orig] # "" /\ pieces[to] = pieces[orig]

ReferenceFilter(dests, pieces) ==
  LET cleaned == [i \in 1..Len(dests) |->
                    <<dests[i][1],
                      SelectSeq(dests[i][2],
                                LAMBDA to : ~SameColour(pieces, dests[i][1], to))>>]
  IN SelectSeq(cleaned, LAMBDA entry : entry[2] # <<>>)

\* C31: a non-empty mapping passed to setLegalDests reaches the surface as
\* the reference filter makes it, for every piece map, and the same mapping
\* becomes the cached legal mapping.
C31_LegalDestsFiltered ==
  [][(Runs("setLegalDests") /\ controller.cg.alive
        /\ evt'.data.payload.dests.list # <<>>)
     => LET ref == ReferenceFilter(evt'.data.payload.dests.list, controller.cg.pieces)
        IN /\ controller'.cg.movableDests.set
           /\ controller'.cg.movableDests.m = ref
           /\ controller'.lastLegalMap = controller'.cg.movableDests]_vars

\* A mapping of two origins has lost one of them to the filter, and a
\* destination of the other.
C31_Witness ==
  /\ Ran("setLegalDests") /\ Len(evt.data.payload.dests.list) = 2
  /\ Len(controller.cg.movableDests.m) = 1
  /\ \E i \in 1..2 :
        /\ evt.data.payload.dests.list[i][1] = controller.cg.movableDests.m[1][1]
        /\ Len(controller.cg.movableDests.m[1][2]) < Len(evt.data.payload.dests.list[i][2])

\* C32 (as claimed): after a host init (the surface being constructible) the
\* board is live with the orientation and movable colour of that init's
\* options, white and both by default, and not in free mode.
C32_InitAppliesOptions ==
  [][(Runs("init") /\ evt'.constructed)
     => LET opts == evt'.data.payload
        IN /\ controller'.cg.alive
           /\ controller'.cg.orientation =
                IF opts.orientation = "" THEN "white" ELSE opts.orientation
           /\ controller'.cg.movableColor =
                IF opts.playerColor = "" THEN "both" ELSE opts.playerColor
           /\ ~controller'.cg.free]_vars

\* The step runs an init that has to construct the surface and cannot.
InitFailsToConstruct ==
  Runs("init") /\ ~controller.cg.alive /\ ~evt'.constructed

\* C33 (as claimed): an init whose surface cannot be constructed and that
\* carries an id is answered with ack ok:false and an error event, never
\* with ack ok:true, and does not mark the widget as initialised by the host.
C33_FailedInitReported ==
  [][(InitFailsToConstruct /\ Truthy(evt'.data.id))
     => /\ \A i \in PostedNext("ack") : ~sent'[i].ok
        /\ PostedNext("ack") # {}
        /\ PostedNext("error") # {}
        /\ initializedByParent' = initializedByParent]_vars

\* The step is a right-click on the board or a press on the origin of the
\* committed premove.
ClearingGesture ==
  \/ evt'.kind = "contextmenu"
  \/ evt'.kind = "pointerdown" /\ evt'.key = Lock[1]

\* The step is a press on a square other than that origin.
PressElsewhere == evt'.kind = "pointerdown" /\ evt'.key # Lock[1]

\* C34: while Locked(a, b) a right-click and a press on a unlock and clear
\* the surface's current premove and premove destinations; a press on
\* another square changes neither the lock, nor the armed flag, nor the
\* surface's premove.
C34_GesturesOnLock ==
  [][(Locked /\ controller.cg.alive)
     => /\ ClearingGesture
           => /\ controller'.savedPremCurrent = <<>>
              /\ controller'.cg.current = <<>>
              /\ Entries(controller'.cg.customDests) = <<>>
        /\ PressElsewhere
           => /\ controller'.savedPremCurrent = Lock
              /\ controller'.allowPremoveClear = controller.allowPremoveClear
              /\ controller'.cg.current = controller.cg.current
              /\ controller'.cg.customDests = controller.cg.customDests]_vars

\* A press next to the origin of the committed premove has left it committed
\* and showing.
C34_Witness ==
  /\ evt.kind = "pointerdown" /\ Locked /\ evt.key # Lock[1]
  /\ controller.cg.current = Lock

\* The step runs the surface's move callback: the user completes a move, or
\* playPremove plays the current premove.
PlaysPremove ==
  /\ Runs("playPremove") /\ controller.cg.alive /\ controller.cg.current # <<>>
  /\ canMove(controller.cg, controller.cg.current[1], controller.cg.current[2])

MoveCallback == evt'.kind = "move" \/ PlaysPremove

\* The move the callback of the step is called with.
MoveMade ==
  IF evt'.kind = "move" THEN <<evt'.orig, evt'.dest>> ELSE controller.cg.current

\* Nothing is selected, shown as a destination or cached in controller `c`.
NoDestsNoSelection(c) ==
  /\ c.cg.selected = "" /\ c.lastSelectedKey = ""
  /\ Entries(c.cg.movableDests) = <<>> /\ Entries(c.cg.customDests) = <<>>
  /\ Entries(c.lastLegalMap) = <<>> /\ Entries(c.lastPremoveMap) = <<>>

\* C35: a move callback posts exactly one move message, with the callback's
\* origin and destination, and leaves no selection, no destinations and no
\* cached mapping; a setPosition handled next shows no destinations.
C35_MoveReportedAndCleared ==
  [][/\ MoveCallback
        => /\ Cardinality(PostedNext("move")) = 1
           /\ \A i \in PostedNext("move") :
                 sent'[i].from = MoveMade[1] /\ sent'[i].to = MoveMade[2]
           /\ NoDestsNoSelection(controller')
     /\ (evt.kind = "move" /\ Runs("setPosition"))
        => /\ Entries(controller'.cg.movableDests) = <<>>
           /\ Entries(controller'.cg.customDests) = <<>>]_vars

\* The user has completed e2-e4 and the host has been told.
C35_Witness ==
  /\ evt.kind = "move" /\ Len(sent) = 1
  /\ sent[1].type = "move" /\ sent[1].from = "e2" /\ sent[1].to = "e4"
  /\ controller.cg.pieces["e4"] = "white"
  /\ NoDestsNoSelection(controller)

\* C36: a deselect that is forwarded (200 ms or more after the last select)
\* empties both destination sets of the surface and both cached mappings,
\* leaves the lock as it was and, while Locked(a, b), leaves (a, b) the
\* surface's current premove.
C36_ForwardedDeselectClearsDests ==
  [][(Deselects /\ SinceSelect >= 200)
     => /\ Entries(controller'.cg.movableDests) = <<>>
        /\ Entries(controller'.cg.customDests) = <<>>
        /\ Entries(controller'.lastLegalMap) = <<>>
        /\ Entries(controller'.lastPremoveMap) = <<>>
        /\ controller'.savedPremCurrent = Lock
        /\ Locked => controller'.cg.current = Lock]_vars

\* A deselect has been forwarded some time after a select, with a premove
\* committed and still showing.
C36_Witness ==
  /\ evt.kind = "select" /\ evt.key = ""
  /\ \E i \in 1..Len(sent) : sent[i].type = "select"
  /\ controller.lastSelectTs > 0 /\ SinceSelect >= 200
  /\ Locked /\ controller.cg.current = Lock

\* C37 (as claimed): between handlers the armed flag is set only while a
\* premove is committed.
C37_ArmedOnlyWhileLocked == Locked \/ ~controller.allowPremoveClear

\* C38: between handlers, while the player is on turn the surface shows no
\* premove destinations and no premove mapping is cached.
C38_NoPremoveDestsOnTurn ==
  (controller.cg.alive /\ isPlayersTurn(controller.cg))
  => /\ Entries(controller.cg.customDests) = <<>>
     /\ Entries(controller.lastPremoveMap) = <<>>

\* The turn has come to the player with a premove committed, and the
\* premove destinations have been taken off the surface.
C38_Witness ==
  /\ Ran("setTurn") /\ controller.cg.alive /\ isPlayersTurn(controller.cg)
  /\ Locked
  /\ controller.cg.customDests = EmptyMap

\* C39 (as claimed): while the trusted origin is the wildcard, a message
\* that is not an init changes neither the surface (position, destination
\* sets, premove) nor the lock, and does not set the counterpart window.
C39_NothingBeforeInit ==
  [][(allowedOrigin = WILDCARD /\ evt'.kind = "message" /\ evt'.data.type # "init")
     => /\ controller'.cg = controller.cg
        /\ controller'.savedPremCurrent = controller.savedPremCurrent
        /\ parentWindow' = parentWindow]_vars

\* The step runs setDraggable with no playerColor in the payload.
DraggableWithoutColour ==
  /\ Runs("setDraggable") /\ evt'.data.payload.playerColor = ""
  /\ controller.cg.alive

\* C40: setDraggable without playerColor makes both colours movable, so the
\* player is off turn whatever the turn colour: no legal destinations are
\* left on the surface and a cached premove mapping is the one shown.
C40_DraggableDefaultsToBoth ==
  [][DraggableWithoutColour
     => /\ controller'.cg.movableColor = "both"
        /\ ~isPlayersTurn(controller'.cg)
        /\ Entries(controller'.cg.movableDests) = <<>>
        /\ controller.lastPremoveMap.set
           => controller'.cg.customDests = controller.lastPremoveMap]_vars

\* setDraggable without a colour has taken the legal destinations off the
\* surface; they are still cached.
C40_Witness ==
  /\ Ran("setDraggable") /\ evt.data.payload.playerColor = ""
  /\ controller.cg.alive /\ controller.cg.movableColor = "both"
  /\ NonEmpty(controller.lastLegalMap) /\ ~LegalShown

====
